---- MODULE Spec2Model ----
(***************************************************************************)
(* Model of streamlit_app.py: the climate / study-data dashboard.          *)
(*                                                                         *)
(* One process serves one session.  Every page load or widget change runs  *)
(* the whole script top to bottom; the two loaders are memoized by         *)
(* st.cache_data.  Floating-point numbers are modelled as fixed-point      *)
(* integers in thousandths (division truncates), with distinguished        *)
(* values for NaN and the two infinities.  Dates are day ordinals counted  *)
(* from 2000-01-01.                                                        *)
(***************************************************************************)
EXTENDS Integers, Sequences, FiniteSets, TLC

VARIABLES
    noaa_cache,     \* st.cache_data entry of load_noaa_data: <<>> or <<[df, success]>>
    user_cache,     \* st.cache_data entry of load_user_data: <<>> or <<df>>
    body_runs,      \* executions of the body of load_noaa_data in this process
    invoked_at,     \* pd.Timestamp.today() seen by the one executed body (day ordinal)
    remote,         \* what pd.read_csv met when the body executed: <<>> or <<[kind, header]>>
    first_result,   \* what the two loaders returned the first time: noaa, user, each <<>> or <<v>>
    env,            \* facts of the installation: statsmodels importable, lstsq raising on NaN
    widgets,        \* session widget state: date_range, smoothing_window, standardize
    run             \* locals and display of the latest script run

vars ==
    <<noaa_cache, user_cache, body_runs, invoked_at, remote, first_result, env, widgets, run>>

-----------------------------------------------------------------------------
(* Bounds of the model *)

\* longest remote CSV body (data rows) the retrieval may deliver
MaxRows == 2
\* random noise streams the fallback generator may draw: seeds 0..MaxSeed
MaxSeed == 1
\* years from the first record whose 1 January and 1 July the date widget may pick
MaxSelYears == 3
\* cap of the body_runs counter
MaxBodyRuns == 3

-----------------------------------------------------------------------------
(* Floating-point values *)

NaN == -2000000000
PosInf == 2000000001
NegInf == -2000000001

IsFinite(x) == x \notin {NaN, PosInf, NegInf}

\* IEEE division of two finite numbers, result in thousandths
FDiv(a, b) ==
    IF b = NaN \/ a = NaN THEN NaN
    ELSE IF b = 0 THEN (IF a = 0 THEN NaN ELSE IF a > 0 THEN PosInf ELSE NegInf)
    ELSE (a * 1000) \div b

RECURSIVE SumTo(_, _)
SumTo(s, k) == IF k = 0 THEN 0 ELSE s[k] + SumTo(s, k - 1)

SumSeq(s) == SumTo(s, Len(s))

SelectFinite(s) == SelectSeq(s, IsFinite)

\* Newton iteration for the integer square root
RECURSIVE ISqrtFrom(_, _)
ISqrtFrom(n, x) ==
    LET y == (x + n \div x) \div 2
    IN  IF y >= x THEN x ELSE ISqrtFrom(n, y)

ISqrt(n) == IF n <= 0 THEN 0 ELSE ISqrtFrom(n, n)

-----------------------------------------------------------------------------
(* Calendar: day ordinals from 2000-01-01 *)

Epoch == 2000

IsLeap(y) == (y % 4 = 0 /\ y % 100 # 0) \/ y % 400 = 0

DaysInMonth(y, m) ==
    IF m = 2 THEN (IF IsLeap(y) THEN 29 ELSE 28)
    ELSE IF m \in {4, 6, 9, 11} THEN 30 ELSE 31

LeapsThrough(y) == y \div 4 - y \div 100 + y \div 400

\* ordinal of 1 January of year y
YearStart(y) == 365 * (y - Epoch) + LeapsThrough(y - 1) - LeapsThrough(Epoch - 1)

RECURSIVE DaysBeforeMonth(_, _)
DaysBeforeMonth(y, m) ==
    IF m = 1 THEN 0 ELSE DaysBeforeMonth(y, m - 1) + DaysInMonth(y, m - 1)

\* ordinal of day d of month m of year y
Ordinal(y, m, d) == YearStart(y) + DaysBeforeMonth(y, m) + d - 1

\* ordinal of the first day of month number k, months numbered from January 2000 = 0
MonthStart(k) == Ordinal(Epoch + k \div 12, (k % 12) + 1, 1)

\* ordinal of the last day of month number k
MonthEnd(k) == MonthStart(k + 1) - 1

\* month number of the day with ordinal d (d >= 0)
RECURSIVE MonthFrom(_, _)
MonthFrom(d, k) == IF d <= MonthEnd(k) THEN k ELSE MonthFrom(d, k + 1)

MonthOf(d) == MonthFrom(d, (d \div 31))

-----------------------------------------------------------------------------
(* Data frames: [columns |-> sequence of names, rows |-> sequence of records] *)

\* a cell of a value column: a float, a missing value, or (in an object
\* column) a string that does or does not spell a number
Float(v) == [t |-> "float", v |-> v]
Missing == [t |-> "nan", v |-> 0]
NumStr(v) == [t |-> "numstr", v |-> v]
Text == [t |-> "text", v |-> 0]

\* the sequence f written out element by element
AsSeq(f) == SubSeq(f, 1, Len(f))

SeqsUpTo(S, n) == UNION {[1..k -> S] : k \in 0..n}

-----------------------------------------------------------------------------
(* The remote source as load_noaa_data sees it *)

\* cells of the first CSV column and of the second one, as text
DateCells == {"2023-12-31", "2024-01-02", "n/a"}
ValueCells == {"0.5", "", "abc"}

\* header rows the endpoint may serve: with both columns the code reads, and
\* without one of them (the last is what an HTML page parses to)
FullHeaders == { <<"date", "anomaly">>, <<"date", "value">> }
PartHeaders == { <<"date", "tavg">>, <<"time", "anomaly">>, <<"<html>", "Unnamed: 1">> }

RawRows == [a : DateCells, b : ValueCells]

\* outcomes of pd.read_csv(url): an exception, a table of up to maxRows rows
\* under a full header, a table of up to one row under another header
Responses(maxRows) ==
    { [kind |-> k, header |-> <<>>, rows |-> <<>>] : k \in {"URLError", "ParserError"} }
    \cup
    { [kind |-> "table", header |-> h, rows |-> r] :
        h \in FullHeaders, r \in SeqsUpTo(RawRows, maxRows) }
    \cup
    { [kind |-> "table", header |-> h, rows |-> r] :
        h \in PartHeaders, r \in SeqsUpTo(RawRows, 1) }

\* invocation times: pd.Timestamp.today() in whole days
Clock == {Ordinal(2024, 1, 1), Ordinal(2024, 1, 2)}

NaT == -1

\* pd.to_datetime(cell, errors="coerce")
to_datetime(cell) ==
    CASE cell = "2023-12-31" -> Ordinal(2023, 12, 31)
      [] cell = "2024-01-02" -> Ordinal(2024, 1, 2)
      [] OTHER -> NaT

\* read_csv's type inference on the second column: float64 when every cell is a
\* number or empty, object otherwise
ParseValueCell(cell, isObject) ==
    CASE cell = "" -> Missing
      [] cell = "abc" -> Text
      [] OTHER -> IF isObject THEN NumStr(500) ELSE Float(500)

read_csv(resp) ==
    IF resp.kind # "table" THEN [exc |-> resp.kind, df |-> <<>>]
    ELSE LET isObject == \E i \in 1..Len(resp.rows) : resp.rows[i].b = "abc"
         IN  [exc |-> "none",
              df |-> [columns |-> resp.header,
                      rows |-> AsSeq([i \in 1..Len(resp.rows) |->
                                  [a |-> resp.rows[i].a,
                                   b |-> ParseValueCell(resp.rows[i].b, isObject)]])]]

InColumns(name, df) == \E i \in 1..Len(df.columns) : df.columns[i] = name

\* lines 33-35: coerce the date column, drop NaT rows, drop rows after now
KeepRow(d, now) == d # NaT /\ d <= now

coerce_and_filter(df, now) ==
    IF ~InColumns("date", df) THEN [exc |-> "KeyError", df |-> <<>>]
    ELSE LET dated == AsSeq([i \in 1..Len(df.rows) |->
                          [date |-> to_datetime(df.rows[i].a), b |-> df.rows[i].b]])
             keep(r) == KeepRow(r.date, now)
         IN  [exc |-> "none", df |-> [columns |-> df.columns, rows |-> SelectSeq(dated, keep)]]

\* line 36: df.rename(columns={"anomaly": "value"})
rename(df) ==
    [columns |-> AsSeq([i \in 1..Len(df.columns) |->
                    IF df.columns[i] = "anomaly" THEN "value" ELSE df.columns[i]]),
     rows |-> df.rows]

\* line 37: df[["date", "value"]]
select_date_value(df) ==
    IF ~InColumns("value", df) THEN [exc |-> "KeyError", df |-> <<>>]
    ELSE [exc |-> "none",
          df |-> [columns |-> <<"date", "value">>,
                  rows |-> AsSeq([i \in 1..Len(df.rows) |->
                                    [date |-> df.rows[i].date, value |-> df.rows[i].b]])]]

\* lines 32-38: the try block; exc names the exception that left it, if any
try_remote(resp, now) ==
    LET r1 == read_csv(resp)
        r2 == coerce_and_filter(r1.df, now)
        r3 == select_date_value(rename(r2.df))
    IN  IF r1.exc # "none" THEN r1
        ELSE IF r2.exc # "none" THEN r2
        ELSE r3

-----------------------------------------------------------------------------
(* Fallback generator, lines 41-43 *)

periods == 240

\* pd.date_range(start, periods=n, freq="M"): the n month ends from start on
date_range_daily(start, n) == AsSeq([i \in 1..n |-> start + i - 1])
date_range(start, n) == AsSeq([i \in 1..n |-> MonthEnd(MonthOf(start) + i - 1)])

\* sin(x) for x in hundredths of a radian, result in thousandths
\* (Bhaskara's approximation on each half period)
HalfWave(x) == (16000 * x * (314 - x)) \div (5 * 314 * 314 - 4 * x * (314 - x))
sin(x) == LET r == x % 628 IN IF r <= 314 THEN HalfWave(r) ELSE 0 - HalfWave(r - 314)

\* np.linspace(0, 20, n)[i] in hundredths, i from 0
linspace(i, n) == (2000 * i) \div (n - 1)

\* np.random.normal(0, 0.2, n)[i] for the stream of one seed: draws around 0
normal(seed, i) == ((((seed + 1) * (i + 3) * (i + 7)) % 5) - 2) * 200

fallback(seed) ==
    LET dates == date_range(Ordinal(2000, 1, 1), periods)
        values == AsSeq([i \in 1..periods |->
                            sin(linspace(i - 1, periods)) + normal(seed, i - 1)])
    IN  [columns |-> <<"date", "value">>,
         rows |-> AsSeq([i \in 1..periods |->
                           [date |-> dates[i], value |-> Float(values[i])]])]

\* lines 25-44: the body of load_noaa_data
body_raises(resp, now, seed) ==
    LET r == try_remote(resp, now)
    IN  IF r.exc # "none" THEN [raised |-> TRUE, df |-> <<>>, success |-> FALSE]
        ELSE [raised |-> FALSE, df |-> r.df, success |-> TRUE]
load_noaa_data_body(resp, now, seed) ==
    LET r == try_remote(resp, now)
    IN  IF r.exc # "none" THEN [raised |-> FALSE, df |-> fallback(seed), success |-> FALSE]
        ELSE [raised |-> FALSE, df |-> r.df, success |-> TRUE]

-----------------------------------------------------------------------------
(* st.cache_data, lines 24 and 46: memoization keyed on the (empty) argument list *)

\* what the cache holds after the body returned value; an escaping exception
\* stores nothing
cache_store_nothing(cache, value) == cache
cache_store(cache, value) == <<value>>

\* load_noaa_data() as the script calls it (line 68).  executed tells whether
\* the body ran; raised whether an exception reached the caller.
load_noaa_data(cache, resp, now, seed) ==
    IF cache # <<>>
    THEN [value |-> cache[1], cache |-> cache, executed |-> FALSE, raised |-> FALSE]
    ELSE LET r == load_noaa_data_body(resp, now, seed)
             v == [df |-> r.df, success |-> r.success]
         IN  IF r.raised
             THEN [value |-> v, cache |-> cache, executed |-> TRUE, raised |-> TRUE]
             ELSE [value |-> v, cache |-> cache_store(cache, v), executed |-> TRUE,
                   raised |-> FALSE]

-----------------------------------------------------------------------------
(* load_user_data, lines 47-61 *)

FirstYear == 2000
LastYear == 2020

\* np.random.seed(42); 22 + 0.05 * (years - 2000) + normal(0, 0.3), in thousandths
temps ==
    << 22149, 22009, 22294, 22607, 22130, 22180, 22774, 22580, 22259, 22613, 22361,
       22410, 22673, 22076, 22183, 22581, 22496, 22944, 22628, 22526, 23440 >>

\* 500 - (temps - 22) * 5 + normal(0, 5), in thousandths
scores ==
    << 498126, 500295, 491405, 494244, 499906, 493346, 498010, 494096, 497246, 493928,
       507457, 497881, 491349, 503733, 492983, 498138, 487721, 488638, 497846, 501061,
       493658 >>

load_user_data_body ==
    [columns |-> <<"date", "summer_avg_temp_C", "math_score">>,
     rows |-> AsSeq([i \in 1..(LastYear - FirstYear + 1) |->
                 [date |-> YearStart(FirstYear + i - 1),
                  summer_avg_temp_C |-> temps[i],
                  math_score |-> scores[i]]])]

load_user_data(cache) ==
    IF cache # <<>> THEN [value |-> cache[1], cache |-> cache]
    ELSE [value |-> load_user_data_body, cache |-> <<load_user_data_body>>]

-----------------------------------------------------------------------------
(* pandas / numpy operations the script applies *)

Max(a, b) == IF a >= b THEN a ELSE b

Column(df, name) == AsSeq([i \in 1..Len(df.rows) |-> df.rows[i][name]])

\* Series.rolling(w).mean(): trailing window, min_periods = w
rolling_mean_min_periods_1(col, w) ==
    AsSeq([i \in 1..Len(col) |->
        LET obs == SelectFinite(SubSeq(col, Max(1, i - w + 1), i))
        IN  IF Len(obs) >= 1 THEN SumSeq(obs) \div Len(obs) ELSE NaN])
rolling_mean(col, w) ==
    AsSeq([i \in 1..Len(col) |->
        LET obs == SelectFinite(SubSeq(col, Max(1, i - w + 1), i))
        IN  IF Len(obs) >= w THEN SumSeq(obs) \div Len(obs) ELSE NaN])

\* Series.mean(): NaN skipped, NaN when nothing is left
mean(col) ==
    LET obs == SelectFinite(col)
    IN  IF Len(obs) = 0 THEN NaN ELSE SumSeq(obs) \div Len(obs)

\* sum of squared deviations from m, in thousandths of a squared unit
SumSq(obs, m) == SumSeq([i \in 1..Len(obs) |-> ((obs[i] - m) * (obs[i] - m)) \div 1000])

\* Series.std(): sample standard deviation (ddof = 1), NaN below two observations
std(col) ==
    LET obs == SelectFinite(col)
    IN  IF Len(obs) < 2 THEN NaN
        ELSE ISqrt((SumSq(obs, mean(col)) \div (Len(obs) - 1)) * 1000)

\* line 120: (col - col.mean()) / col.std(), element by element
zscore(col) ==
    LET m == mean(col)
        s == std(col)
    IN  AsSeq([i \in 1..Len(col) |->
                  IF col[i] = NaN \/ m = NaN THEN NaN ELSE FDiv(col[i] - m, s)])

\* rows where both columns hold a number
Pairs(xs, ys) == {i \in 1..Len(xs) : xs[i] # NaN /\ ys[i] # NaN}

SeqOfSet(xs, S) == SelectSeq([i \in 1..Len(xs) |-> IF i \in S THEN xs[i] ELSE NaN], IsFinite)

IsConstant(obs) == \A i \in 1..Len(obs) : obs[i] = obs[1]

\* Series.corr(other): Pearson's r over the paired rows, in thousandths; NaN
\* below two pairs or when either column does not vary
corr(xs, ys) ==
    LET P == Pairs(xs, ys)
        px == SeqOfSet(xs, P)
        py == SeqOfSet(ys, P)
        n == Len(px)
        mx == SumSeq(px) \div n
        my == SumSeq(py) \div n
        dx == [i \in 1..n |-> px[i] - mx]
        dy == [i \in 1..n |-> (py[i] - my) \div 10]
        sxy == SumSeq([i \in 1..n |-> dx[i] * dy[i]])
        sx == ISqrt(SumSeq([i \in 1..n |-> dx[i] * dx[i]]))
        sy == ISqrt(SumSeq([i \in 1..n |-> dy[i] * dy[i]]))
    IN  IF n < 2 \/ \E i \in 1..Len(ys) : ys[i] \in {PosInf, NegInf} THEN NaN
        ELSE IF IsConstant(px) \/ IsConstant(py) \/ sx = 0 \/ sy = 0 THEN NaN
        ELSE ((sxy \div sx) * 1000) \div sy

\* f"{corr_value:.3f}", line 158
format3(x) == IF x = NaN THEN "nan" ELSE "number"

-----------------------------------------------------------------------------
(* Objects of one script run.  A frame variable of the script refers to an   *)
(* object; .copy() makes a new object, an assignment to a column changes the *)
(* object the variable refers to.                                            *)

Objects == {"noaa_df", "df_ma", "user_df", "masked", "df_vis"}

\* DataFrame.copy(): a new object dst with the contents of src
copy_alias(heap, src, dst) == [heap |-> heap, ref |-> src]
copy(heap, src, dst) == [heap |-> [heap EXCEPT ![dst] = heap[src]], ref |-> dst]

\* rolling's conversion of a column to float64; numeric strings convert
ensure_float64(col) ==
    AsSeq([i \in 1..Len(col) |-> IF col[i].t \in {"float", "numstr"} THEN col[i].v ELSE NaN])

\* df["MA12"] = values
set_MA12(df, values) ==
    [columns |-> IF InColumns("MA12", df) THEN df.columns ELSE Append(df.columns, "MA12"),
     rows |-> AsSeq([i \in 1..Len(df.rows) |->
                 [date |-> df.rows[i].date, value |-> df.rows[i].value,
                  MA12 |-> values[i]]])]

\* df["math_score"] = values
set_math_score(df, values) ==
    [columns |-> df.columns,
     rows |-> AsSeq([i \in 1..Len(df.rows) |->
                       [df.rows[i] EXCEPT !.math_score = values[i]]])]

\* lines 68-92: the NOAA section.  Line 86 raises DataError when the value
\* column holds text that is no number.
HasText(col) == \E i \in 1..Len(col) : col[i].t = "text"

write_MA12(c, col) ==
    IF HasText(col) THEN [error |-> "DataError", heap |-> c.heap]
    ELSE [error |-> "none",
          heap |-> [c.heap EXCEPT
                      ![c.ref] = set_MA12(@, rolling_mean(ensure_float64(col), 12))]]

moving_average(c) == write_MA12(c, Column(c.heap[c.ref], "value"))

noaa_section(value) ==
    moving_average(copy([o \in Objects |-> IF o = "noaa_df" THEN value.df ELSE <<>>],
                        "noaa_df", "df_ma"))

\* line 116: user_df[(date >= start) & (date <= end)], a new frame
boolean_index_end_exclusive(df, start, end) ==
    LET keep(r) == r.date >= start /\ r.date < end
    IN  [columns |-> df.columns, rows |-> SelectSeq(df.rows, keep)]
boolean_index(df, start, end) ==
    LET keep(r) == r.date >= start /\ r.date <= end
    IN  [columns |-> df.columns, rows |-> SelectSeq(df.rows, keep)]

\* lines 133-142: px.scatter(..., trendline="ols") and its display.  plotly fits
\* the trendline only when more than one row has both values; the fit imports
\* statsmodels, and reads a second parameter that a constant x leaves out.
px_scatter_ols(xs, ys, e) ==
    LET P == Pairs(xs, ys)
        n == Cardinality(P)
    IN  IF n <= 1 THEN [exc |-> "none", chart |-> "scatter without trendline"]
        ELSE IF ~e.statsmodels THEN [exc |-> "ModuleNotFoundError", chart |-> "none"]
        ELSE IF \E i \in P : ys[i] \in {PosInf, NegInf}
             THEN [exc |-> "MissingDataError", chart |-> "none"]
        ELSE IF IsConstant(SeqOfSet(xs, P)) THEN [exc |-> "IndexError", chart |-> "none"]
        ELSE [exc |-> "none", chart |-> "scatter with OLS trendline"]

\* lines 145-150: np.polyfit(x, y, 1) on the whole columns, then the chart.
\* An empty x is a TypeError; a NaN reaches LAPACK, where lstsq either raises
\* LinAlgError or returns NaN coefficients, by installation.
polyfit(xs, ys, e) ==
    IF Len(xs) = 0 THEN [exc |-> "TypeError", chart |-> "none"]
    ELSE IF \E i \in 1..Len(ys) : ~IsFinite(ys[i])
         THEN (IF e.lstsq_raises THEN [exc |-> "LinAlgError", chart |-> "none"]
               ELSE [exc |-> "none", chart |-> "scatter with NaN line"])
    ELSE [exc |-> "none", chart |-> "scatter with polyfit line"]

\* lines 117-118
smooth(col, w) == IF w > 0 THEN rolling_mean(col, w) ELSE col

\* lines 119-120
standardized(col, on) == IF on THEN zscore(col) ELSE col

\* a run that has not reached the user section, or left it early
NoUserPart ==
    [filtered |-> <<>>, smoothed |-> <<>>, scatter_exc |-> "none", chart |-> "none",
     corr_value |-> NaN, corr_text |-> "", csv2 |-> <<>>]

\* lines 132-161, given the outcome t of the try block, f of the except
\* branch's polyfit and the correlation r
display(heap, ref, filtered, smoothed, t, f, r) ==
    IF t.exc # "none" /\ f.exc # "none"
    THEN [error |-> f.exc, line |-> 145, heap |-> heap] @@
         [NoUserPart EXCEPT !.filtered = filtered, !.smoothed = smoothed,
                            !.scatter_exc = t.exc]
    ELSE [error |-> "none", line |-> 0, heap |-> heap,
          filtered |-> filtered, smoothed |-> smoothed,
          scatter_exc |-> t.exc,
          chart |-> IF t.exc = "none" THEN t.chart ELSE f.chart,
          corr_value |-> r, corr_text |-> format3(r),
          csv2 |-> heap[ref].rows]

charts(heap, ref, filtered, smoothed, xs, ys, e) ==
    display(heap, ref, filtered, smoothed,
            px_scatter_ols(xs, ys, e), polyfit(xs, ys, e), corr(xs, ys))

plotted(heap, ref, filtered, smoothed, e) ==
    charts(heap, ref, filtered, smoothed,
           Column(heap[ref], "summer_avg_temp_C"), Column(heap[ref], "math_score"), e)

\* lines 117-120: the two assignments to df_vis["math_score"]
transform(c, filtered, smoothed, w, e) ==
    plotted([c.heap EXCEPT ![c.ref] = set_math_score(@, standardized(smoothed, w.standardize))],
            c.ref, filtered, smoothed, e)

smoothing(c, filtered, w, e) ==
    transform(c, filtered, smooth(filtered, w.smoothing_window), w, e)

filtered_frame(c, w, e) == smoothing(c, Column(c.heap[c.ref], "math_score"), w, e)

\* lines 97-161: the user section.  Line 110 reads date_range[1], which a
\* 1-tuple does not have.
user_section(heap, user_value, w, e) ==
    IF Len(w.date_range) < 2
    THEN [error |-> "IndexError", line |-> 110,
          heap |-> [heap EXCEPT !["user_df"] = user_value]] @@ NoUserPart
    ELSE filtered_frame(
            copy([heap EXCEPT
                    !["user_df"] = user_value,
                    !["masked"] = boolean_index(user_value, w.date_range[1],
                                                w.date_range[2])],
                 "masked", "df_vis"),
            w, e)

-----------------------------------------------------------------------------
(* One run of the script, lines 1-169 *)

NoFrame == [columns |-> <<>>, rows |-> <<>>]

FrameOf(heap, o) == IF heap[o] = <<>> THEN NoFrame ELSE heap[o]

NotStarted ==
    [started |-> FALSE, error |-> "none", line |-> 0, success |-> FALSE, warning |-> FALSE,
     noaa_df |-> NoFrame, df_ma |-> NoFrame, user_df |-> NoFrame, df_vis |-> NoFrame,
     date_range |-> <<>>, smoothing_window |-> 0, standardize |-> FALSE] @@ NoUserPart

Started(w) ==
    [NotStarted EXCEPT !.started = TRUE, !.date_range = w.date_range,
                       !.smoothing_window = w.smoothing_window,
                       !.standardize = w.standardize]

\* the run record once the user section S has run
after_user(L, U, S, w) ==
    [run |-> [Started(w) EXCEPT
                !.success = L.value.success, !.warning = ~L.value.success,
                !.error = S.error, !.line = S.line,
                !.noaa_df = FrameOf(S.heap, "noaa_df"),
                !.df_ma = FrameOf(S.heap, "df_ma"),
                !.user_df = FrameOf(S.heap, "user_df"),
                !.df_vis = FrameOf(S.heap, "df_vis"),
                !.filtered = S.filtered, !.smoothed = S.smoothed,
                !.scatter_exc = S.scatter_exc, !.chart = S.chart,
                !.corr_value = S.corr_value,
                !.corr_text = S.corr_text, !.csv2 = S.csv2],
     noaa_cache |-> L.cache, user_cache |-> U.cache, load |-> L]

user_part(L, N, U, w, e) == after_user(L, U, user_section(N.heap, U.value, w, e), w)

\* the run record once the NOAA section N has run
after_noaa(L, N, ucache, w, e) ==
    IF N.error # "none"
    THEN [run |-> [Started(w) EXCEPT
                     !.success = L.value.success, !.warning = ~L.value.success,
                     !.error = N.error, !.line = 86,
                     !.noaa_df = FrameOf(N.heap, "noaa_df"),
                     !.df_ma = FrameOf(N.heap, "df_ma")],
          noaa_cache |-> L.cache, user_cache |-> ucache, load |-> L]
    ELSE user_part(L, N, load_user_data(ucache), w, e)

\* the run record once load_noaa_data returned L at line 68
after_load(L, ucache, w, e) ==
    IF L.raised
    THEN [run |-> [Started(w) EXCEPT !.error = "Exception", !.line = 68],
          noaa_cache |-> L.cache, user_cache |-> ucache, load |-> L]
    ELSE after_noaa(L, noaa_section(L.value), ucache, w, e)

\* the run record of a script run, with the caches it leaves behind
script(ncache, ucache, resp, now, seed, w, e) ==
    after_load(load_noaa_data(ncache, resp, now, seed), ucache, w, e)

-----------------------------------------------------------------------------
(* The session *)

min_date == YearStart(FirstYear)
max_date == YearStart(LastYear)

DefaultWidgets ==
    [date_range |-> <<min_date, max_date>>, smoothing_window |-> 0, standardize |-> FALSE]

\* values of the smoothing slider, line 112
SliderValues == 0..5

Seeds == 0..MaxSeed

Min(a, b) == IF a <= b THEN a ELSE b

\* inputs of a specification: outcomes R of the remote retrieval, invocation
\* times C, dates D the user picks in the date input, slider values W
Inputs(R, C, D, W) == [R |-> R, C |-> C, D |-> D, W |-> W]

\* the script runs once with widget state w
RunScript(in, w) ==
    \E resp \in (IF noaa_cache = <<>> THEN in.R ELSE {CHOOSE r \in in.R : TRUE}),
       now \in (IF noaa_cache = <<>> THEN in.C ELSE {CHOOSE t \in in.C : TRUE}),
       seed \in (IF noaa_cache = <<>> THEN Seeds ELSE {0}) :
        \E out \in {script(noaa_cache, user_cache, resp, now, seed, w, env)} :
            /\ run' = out.run
            /\ noaa_cache' = out.noaa_cache
            /\ user_cache' = out.user_cache
            /\ body_runs' = IF out.load.executed THEN Min(body_runs + 1, MaxBodyRuns)
                            ELSE body_runs
            /\ invoked_at' = IF out.load.executed THEN now ELSE invoked_at
            /\ remote' = IF out.load.executed
                          THEN <<[kind |-> resp.kind, header |-> resp.header]>>
                          ELSE remote
            /\ first_result' =
                    [noaa |-> IF first_result.noaa = <<>> /\ ~out.load.raised
                              THEN <<out.load.value>> ELSE first_result.noaa,
                     user |-> IF first_result.user = <<>>
                              THEN out.user_cache ELSE first_result.user]
            /\ widgets' = w
            /\ UNCHANGED env

\* widgets a run displayed: the date input at line 104, the slider at 112, the
\* checkbox at 113
DateInputShown == run.started /\ (run.line = 0 \/ run.line >= 104)
SliderShown == run.started /\ (run.line = 0 \/ run.line > 112)
CheckboxShown == run.started /\ (run.line = 0 \/ run.line > 113)

\* first page load: every widget at its default
PageLoad(in) ==
    /\ ~run.started
    /\ RunScript(in, DefaultWidgets)

\* a rerun with the widgets as they are
Rerun(in) ==
    /\ run.started
    /\ RunScript(in, widgets)

\* the user completes a range in the date input
ChangeDateRange(in) ==
    /\ DateInputShown
    /\ \E s \in in.D, t \in in.D :
        /\ s <= t
        /\ <<s, t>> # widgets.date_range
        /\ RunScript(in, [widgets EXCEPT !.date_range = <<s, t>>])

\* the user has picked the first date of a range only: date_input returns a
\* 1-tuple.  Widgets the run does not reach keep or lose their state.
PickStartOnly(in) ==
    /\ DateInputShown
    /\ \E s \in in.D, keep \in BOOLEAN :
        RunScript(in, IF keep THEN [widgets EXCEPT !.date_range = <<s>>]
                      ELSE [DefaultWidgets EXCEPT !.date_range = <<s>>])

ChangeSmoothing(in) ==
    /\ SliderShown
    /\ \E k \in in.W \ {widgets.smoothing_window} :
        RunScript(in, [widgets EXCEPT !.smoothing_window = k])

ToggleStandardize(in) ==
    /\ CheckboxShown
    /\ RunScript(in, [widgets EXCEPT !.standardize = ~widgets.standardize])

InitOver(E) ==
    /\ noaa_cache = <<>>
    /\ user_cache = <<>>
    /\ body_runs = 0
    /\ invoked_at = NaT
    /\ remote = <<>>
    /\ first_result = [noaa |-> <<>>, user |-> <<>>]
    /\ env \in E
    /\ widgets = DefaultWidgets
    /\ run = NotStarted

-----------------------------------------------------------------------------
(* Spec: every outcome of the remote retrieval at both invocation times, on  *)
(* an installation with statsmodels; the date input at its upper end, the    *)
(* slider at 0 and 1.                                                        *)

Envs == [statsmodels : BOOLEAN, lstsq_raises : BOOLEAN]

AllInputs == Inputs(Responses(MaxRows), Clock, {max_date}, {0, 1})

Init == InitOver({e \in Envs : e.statsmodels /\ e.lstsq_raises})

Next ==
    \/ PageLoad(AllInputs)
    \/ Rerun(AllInputs)
    \/ ChangeDateRange(AllInputs)
    \/ PickStartOnly(AllInputs)
    \/ ChangeSmoothing(AllInputs)
    \/ ToggleStandardize(AllInputs)

Spec == Init /\ [][Next]_vars

-----------------------------------------------------------------------------
(* SpecUser: the retrieval delivers one good row; every installation; the    *)
(* date input over SelDates.                                                 *)

\* dates the user picks in the date input
SelDates ==
    {YearStart(FirstYear + k) : k \in 0..(MaxSelYears - 1)}
    \cup {Ordinal(FirstYear + k, 7, 1) : k \in 0..(MaxSelYears - 1)}
    \cup {max_date}

OneGoodRow ==
    { [kind |-> "table", header |-> <<"date", "anomaly">>,
       rows |-> <<[a |-> "2023-12-31", b |-> "0.5"]>>] }

UserInputs == Inputs(OneGoodRow, {Ordinal(2024, 1, 1)}, SelDates, SliderValues)

InitUser == InitOver(Envs)

NextUser ==
    \/ PageLoad(UserInputs)
    \/ Rerun(UserInputs)
    \/ ChangeDateRange(UserInputs)
    \/ PickStartOnly(UserInputs)
    \/ ChangeSmoothing(UserInputs)
    \/ ToggleStandardize(UserInputs)

SpecUser == InitUser /\ [][NextUser]_vars

TypeOK ==
    /\ body_runs \in 0..MaxBodyRuns
    /\ env \in Envs
    /\ Len(noaa_cache) <= 1
    /\ Len(user_cache) <= 1

-----------------------------------------------------------------------------
(* Properties *)

HeaderHas(name) == \E i \in 1..Len(remote[1].header) : remote[1].header[i] = name

\* the retrieval or the normalization failed: no table, no date column, or no
\* column that line 37 can select as value
RemoteFailed ==
    /\ remote # <<>>
    /\ \/ remote[1].kind # "table"
       \/ ~HeaderHas("date")
       \/ ~HeaderHas("anomaly") /\ ~HeaderHas("value")

\* the frames the fallback generator can produce
SyntheticFrames == {fallback(s) : s \in Seeds}

\* the latest run reached the transforms of the user section
Reached == run.started /\ run.line \in {0, 145}

\* C1: load_noaa_data never lets an exception reach line 68; whatever the
\* remote retrieval met, the caller holds a (table, flag) pair, and when the
\* retrieval or the normalization failed the table is the synthetic fallback
\* and the flag is False.
C1_NeverRaises ==
    run.started =>
        /\ run.line # 68
        /\ first_result.noaa # <<>>
        /\ RemoteFailed =>
              /\ ~first_result.noaa[1].success
              /\ first_result.noaa[1].df \in SyntheticFrames
              /\ run.warning

C1_Witness ==
    /\ run.started
    /\ RemoteFailed
    /\ remote[1].kind = "table"
    /\ ~run.success
    /\ run.noaa_df \in SyntheticFrames

\* C2: every row of a table returned with flag True has a date that is not
\* missing and not after the invocation time, and a numeric value that is not
\* missing.
C2_RemoteRowsValid ==
    (first_result.noaa # <<>> /\ first_result.noaa[1].success) =>
        \A i \in 1..Len(first_result.noaa[1].df.rows) :
            /\ first_result.noaa[1].df.rows[i].date # NaT
            /\ first_result.noaa[1].df.rows[i].date <= invoked_at
            /\ first_result.noaa[1].df.rows[i].value.t = "float"

\* C3: a table returned with flag True is not empty; a remote table that
\* normalizes to zero rows is replaced by the fallback with flag False.
C3_RemoteNonEmpty ==
    (first_result.noaa # <<>> /\ first_result.noaa[1].success) =>
        Len(first_result.noaa[1].df.rows) > 0

\* C4: when the remote source fails the result is the fallback: flag False,
\* exactly periods rows, no missing value, dates strictly increasing and in
\* consecutive calendar months, and the same dates whatever the noise.
C4_FallbackShape ==
    (first_result.noaa # <<>> /\ RemoteFailed) =>
        /\ ~first_result.noaa[1].success
        /\ Len(first_result.noaa[1].df.rows) = periods
        /\ \A i \in 1..Len(first_result.noaa[1].df.rows) :
              /\ first_result.noaa[1].df.rows[i].value.t = "float"
              /\ IsFinite(first_result.noaa[1].df.rows[i].value.v)
        /\ \A i \in 1..(Len(first_result.noaa[1].df.rows) - 1) :
              /\ first_result.noaa[1].df.rows[i].date
                    < first_result.noaa[1].df.rows[i + 1].date
              /\ MonthOf(first_result.noaa[1].df.rows[i + 1].date)
                    = MonthOf(first_result.noaa[1].df.rows[i].date) + 1
        /\ \A f \in SyntheticFrames :
              Column(f, "date") = Column(first_result.noaa[1].df, "date")

C4_Witness ==
    /\ run.started
    /\ RemoteFailed
    /\ remote[1].kind = "URLError"
    /\ Len(run.noaa_df.rows) = periods
    /\ ~run.success

\* C5: over any sequence of runs the body of load_noaa_data executes at most
\* once, and every run holds the table and the flag the first run got.
C5_FetchOnce ==
    /\ body_runs <= 1
    /\ run.started =>
          /\ body_runs = 1
          /\ run.line # 68
          /\ noaa_cache = first_result.noaa
          /\ run.success = first_result.noaa[1].success
          /\ run.noaa_df = first_result.noaa[1].df

C5_Witness ==
    /\ body_runs = 1
    /\ widgets.smoothing_window = 1
    /\ widgets.standardize
    /\ ~run.success
    /\ run.noaa_df = first_result.noaa[1].df

RECURSIVE SumRange(_, _, _)
SumRange(col, lo, hi) == IF lo > hi THEN 0 ELSE col[lo] + SumRange(col, lo + 1, hi)

Defined(col) == {i \in 1..Len(col) : col[i] # NaN}

\* C6: the smoothed math_score column is the trailing mean: unchanged for
\* w = 0; for w > 0 position i >= w holds the mean of the w positions ending
\* at i and the positions before w are undefined (positions counted from 1).
\* So w = 1 changes nothing, w = N defines the last position only, w > N none.
C6_TrailingMean ==
    Reached =>
        /\ Len(run.smoothed) = Len(run.filtered)
        /\ run.smoothing_window = 0 => run.smoothed = run.filtered
        /\ run.smoothing_window > 0 =>
              \A i \in 1..Len(run.filtered) :
                  IF i >= run.smoothing_window
                  THEN run.smoothed[i] =
                          SumRange(run.filtered, i - run.smoothing_window + 1, i)
                              \div run.smoothing_window
                  ELSE run.smoothed[i] = NaN
        /\ run.smoothing_window = 1 => run.smoothed = run.filtered
        /\ (run.smoothing_window > 0 /\ run.smoothing_window = Len(run.filtered)) =>
              Defined(run.smoothed) = {Len(run.filtered)}
        /\ run.smoothing_window > Len(run.filtered) => Defined(run.smoothed) = {}

C6_Witness ==
    /\ Reached
    /\ run.smoothing_window = 3
    /\ Len(run.filtered) = 3
    /\ Defined(run.smoothed) = {3}

\* C7: with standardization on and a zero or undefined standard deviation, no
\* value that was defined before the step leaves it as NaN or infinite.
C7_StandardizeGuarded ==
    (Reached /\ run.line = 0 /\ run.standardize /\ std(run.smoothed) \in {NaN, 0}) =>
        \A i \in 1..Len(run.smoothed) :
            IsFinite(run.smoothed[i]) => IsFinite(run.csv2[i].math_score)

InRange(d) == run.date_range[1] <= d /\ d <= run.date_range[2]

\* C8: df_vis holds exactly the user records with start <= date <= end, in
\* their order and with their values; with no record in the range it has no
\* rows and the run completes every later step.
C8_DateFilter ==
    Reached =>
        /\ \A i \in 1..Len(run.df_vis.rows) :
              \E j \in 1..Len(first_result.user[1].rows) :
                  /\ InRange(first_result.user[1].rows[j].date)
                  /\ first_result.user[1].rows[j].date = run.df_vis.rows[i].date
                  /\ first_result.user[1].rows[j].summer_avg_temp_C
                        = run.df_vis.rows[i].summer_avg_temp_C
                  /\ first_result.user[1].rows[j].math_score = run.filtered[i]
        /\ \A j \in 1..Len(first_result.user[1].rows) :
              InRange(first_result.user[1].rows[j].date) =>
                  \E i \in 1..Len(run.df_vis.rows) :
                      run.df_vis.rows[i].date = first_result.user[1].rows[j].date
        /\ \A i \in 1..(Len(run.df_vis.rows) - 1) :
              run.df_vis.rows[i].date < run.df_vis.rows[i + 1].date
        /\ (\A j \in 1..Len(first_result.user[1].rows) :
                ~InRange(first_result.user[1].rows[j].date)) =>
              /\ run.df_vis.rows = <<>>
              /\ run.error = "none"
              /\ run.chart # "none"
              /\ run.corr_text = "nan"
              /\ run.csv2 = <<>>

C8_Witness ==
    /\ Reached
    /\ run.df_vis.rows = <<>>
    /\ run.error = "none"
    /\ run.smoothing_window = 5
    /\ run.standardize

\* fewer than two rows with both values, or a column that does not vary
Degenerate ==
    \/ Cardinality(Pairs(Column(run.df_vis, "summer_avg_temp_C"),
                         Column(run.df_vis, "math_score"))) < 2
    \/ IsConstant(SelectFinite(Column(run.df_vis, "summer_avg_temp_C")))
    \/ IsConstant(SelectFinite(Column(run.df_vis, "math_score")))

C10_ReadOnly ==
    /\ first_result.noaa # <<>> => noaa_cache = first_result.noaa
    /\ first_result.user # <<>> => user_cache = first_result.user
    /\ (run.started /\ run.line # 68) => run.noaa_df = first_result.noaa[1].df
    /\ run.user_df # NoFrame => run.user_df = first_result.user[1]
    /\ Reached =>
          \A i \in 1..Len(run.df_vis.rows) :
              \E j \in 1..Len(first_result.user[1].rows) :
                  /\ first_result.user[1].rows[j].date = run.df_vis.rows[i].date
                  /\ first_result.user[1].rows[j].math_score = run.filtered[i]

C10_Witness ==
    /\ Reached
    /\ run.line = 0
    /\ run.standardize
    /\ run.smoothing_window = 2
    /\ InColumns("MA12", run.df_ma)
    /\ ~InColumns("MA12", run.noaa_df)
    /\ Len(run.df_vis.rows) > 2
    /\ Column(run.df_vis, "math_score") # run.filtered
    /\ run.user_df = first_result.user[1]

====
